---- MODULE Spec2Model ----
(***************************************************************************)
(* Model of the extraction / routing / merge core of the company-intel     *)
(* pipelines (discovery.py, deep_analysis.py, revenue.py).                 *)
(*                                                                         *)
(* A text is a sequence of one-character strings.  A decoded JSON value is *)
(* a record [t, v]: t is "obj" (v a function from keys to values), "list"  *)
(* (v a sequence of values), "str" (v a sequence of characters) or "num"   *)
(* (v a natural number).  A Python dict built by the program itself is a   *)
(* TLA+ record whose DOMAIN is the set of keys present.                    *)
(***************************************************************************)
EXTENDS Integers, Sequences, FiniteSets, TLC

VARIABLES
  \* one call of extract_json
  text,             \* the response text handed to extract_json
  doc,              \* the document the text was built around
  impl,             \* the pipeline whose extract_json ran
  result,           \* what extract_json returned
  xpc,              \* "input", "returned" ("idle" outside SpecExtract)
  \* one run of deep_analysis.py's main with --input
  cli,              \* the parsed command line (args)
  discovery_data,   \* the loaded discovery file
  service,          \* how the external service answers this run's calls
  pc,               \* position in main
  company_name,     \* main's local company_name
  domain,           \* main's local domain
  sources,          \* get_high_relevance_sources' return value
  yt_sources,
  art_sources,
  youtube_results,
  article_results,
  calls,            \* the follow-up calls made so far, in order
  deep_intel,       \* merge_deep_intel's return value
  exit_status,      \* <<>>, or <<status>> once the process has ended
  \* one run of revenue.py's main
  response,         \* the external service's answer to research_revenue
  revenue_data,     \* main's data: research_revenue's return value
  confidence,       \* the values calculate_confidence's local took
  rpc,              \* position in revenue.py's main
  rexit,            \* <<>>, or <<status>> once revenue.py has ended
  \* one run of discovery.py's main
  args,             \* the parsed command line
  answers,          \* the external service's answers to the two calls
  intel,            \* main's intel: collect_company_intel's return value
  acquirer_calls,   \* the calls of collect_acquirer_intel made so far
  dpc               \* position in discovery.py's main

xvars == <<text, doc, impl, result, xpc>>
mvars == <<cli, discovery_data, service, pc, company_name, domain, sources,
           yt_sources, art_sources, youtube_results, article_results, calls,
           deep_intel, exit_status>>
rvars == <<response, revenue_data, confidence, rpc, rexit>>
dvars == <<args, answers, intel, acquirer_calls, dpc>>
vars == <<xvars, mvars, rvars, dvars>>

---------------------------------------------------------------------------
(* Bounds of the model and constants of the program.                       *)

\* Nesting depth of the JSON documents drawn as inputs.
MaxDepth == 2
\* Padded texts are this many characters shorter than an excerpt limit
\* before the document is appended, so their lengths straddle the limit.
PadSlack == 3

\* deep_analysis.py / revenue.py: text[:2000]
RawTextLimit == 2000
\* discovery.py: text[:500]
RawResponseLimit == 500

---------------------------------------------------------------------------
(* Small helpers.                                                          *)

Min(S) == CHOOSE m \in S : \A k \in S : m <= k
Max(S) == CHOOSE m \in S : \A k \in S : m >= k

\* Python's text[:n]
Prefix(s, n) == SubSeq(s, 1, IF Len(s) < n THEN Len(s) ELSE n)

\* n copies of character c
Repeat(c, n) == [i \in 1..n |-> c]

\* The backquote character (a TLA+ string cannot hold one).
Backtick == "BQ"
Fence == <<Backtick, Backtick, Backtick>>
JsonTag == <<"j", "s", "o", "n">>
Whitespace == {" "}
Digits == {"1"}

---------------------------------------------------------------------------
(* json.loads: a recursive-descent decoder over the characters of the      *)
(* model's alphabet (objects, arrays, strings, numbers, blanks).           *)

NoValue == [t |-> "none", v |-> 0]
ParseFail == [ok |-> FALSE, v |-> NoValue, p |-> 0]
ParseOk(val, next) == [ok |-> TRUE, v |-> val, p |-> next]

RECURSIVE SkipWs(_, _)
SkipWs(s, i) ==
  IF i <= Len(s) /\ s[i] \in Whitespace THEN SkipWs(s, i + 1) ELSE i

\* Index of the quote closing the string opened at position i, 0 if none.
ClosingQuote(s, i) ==
  LET qs == {j \in (i + 1)..Len(s) : s[j] = "\""}
  IN IF qs = {} THEN 0 ELSE Min(qs)

\* First position after the digit run starting at i.
NumberEnd(s, i) ==
  LET stops == {j \in i..Len(s) : s[j] \notin Digits}
  IN IF stops = {} THEN Len(s) + 1 ELSE Min(stops)

RECURSIVE NumberValue(_, _, _)
NumberValue(s, i, e) ==
  IF e <= i THEN 0 ELSE 10 * NumberValue(s, i, e - 1) + 1

\* dict assignment d[k] = val (a repeated key keeps the last value)
MapPut(m, k, val) ==
  [x \in (DOMAIN m) \cup {k} |-> IF x = k THEN val ELSE m[x]]

EmptyMap == [x \in {} |-> NoValue]

RECURSIVE ParseValue(_, _)
RECURSIVE ParseMembers(_, _, _)
RECURSIVE ParseItems(_, _, _)

\* JSONObject's loop; j is where the opening quote of a key is expected.
ParseMembers(s, j, m) ==
  IF j > Len(s) \/ s[j] # "\"" THEN ParseFail
  ELSE LET q == ClosingQuote(s, j) IN
    IF q = 0 THEN ParseFail
    ELSE LET key == SubSeq(s, j + 1, q - 1)
             c == SkipWs(s, q + 1)
         IN IF c > Len(s) \/ s[c] # ":" THEN ParseFail
            ELSE LET r == ParseValue(s, SkipWs(s, c + 1)) IN
              IF ~r.ok THEN ParseFail
              ELSE LET e == SkipWs(s, r.p)
                       m2 == MapPut(m, key, r.v)
                   IN IF e > Len(s) THEN ParseFail
                      ELSE IF s[e] = "}"
                        THEN ParseOk([t |-> "obj", v |-> m2], e + 1)
                      ELSE IF s[e] = ","
                        THEN ParseMembers(s, SkipWs(s, e + 1), m2)
                      ELSE ParseFail

\* JSONArray's loop; j is where the next item is expected.
ParseItems(s, j, items) ==
  LET r == ParseValue(s, j) IN
  IF ~r.ok THEN ParseFail
  ELSE LET e == SkipWs(s, r.p)
           items2 == Append(items, r.v)
       IN IF e > Len(s) THEN ParseFail
          ELSE IF s[e] = "]"
            THEN ParseOk([t |-> "list", v |-> items2], e + 1)
          ELSE IF s[e] = ","
            THEN ParseItems(s, SkipWs(s, e + 1), items2)
          ELSE ParseFail

\* scan_once: the value starting exactly at position i.
ParseValue(s, i) ==
  IF i > Len(s) THEN ParseFail
  ELSE IF s[i] = "\"" THEN
    LET q == ClosingQuote(s, i) IN
    IF q = 0 THEN ParseFail
    ELSE ParseOk([t |-> "str", v |-> SubSeq(s, i + 1, q - 1)], q + 1)
  ELSE IF s[i] = "{" THEN
    LET j == SkipWs(s, i + 1) IN
    IF j <= Len(s) /\ s[j] = "}"
      THEN ParseOk([t |-> "obj", v |-> EmptyMap], j + 1)
      ELSE ParseMembers(s, j, EmptyMap)
  ELSE IF s[i] = "[" THEN
    LET j == SkipWs(s, i + 1) IN
    IF j <= Len(s) /\ s[j] = "]"
      THEN ParseOk([t |-> "list", v |-> <<>>], j + 1)
      ELSE ParseItems(s, j, <<>>)
  ELSE IF s[i] \in Digits THEN
    LET e == NumberEnd(s, i) IN
    ParseOk([t |-> "num", v |-> NumberValue(s, i, e)], e)
  ELSE ParseFail

\* json.loads(s): leading blanks, one value, trailing blanks, nothing else.
\* ok = FALSE stands for JSONDecodeError.
json_loads(s) ==
  LET r == ParseValue(s, SkipWs(s, 1)) IN
  IF r.ok /\ SkipWs(s, r.p) = Len(s) + 1
    THEN [ok |-> TRUE, v |-> r.v]
    ELSE [ok |-> FALSE, v |-> NoValue]

---------------------------------------------------------------------------
(* The two regular expressions of extract_json, as re.search evaluates     *)
(* them: leftmost start, then the quantifiers' preferences.                *)

IsAt(s, i, w) ==
  i + Len(w) - 1 <= Len(s) /\ \A k \in 1..Len(w) : s[i + k - 1] = w[k]

NoMatch == [found |-> FALSE, group |-> <<>>]

\* The rest of r'```(?:json)?\s*(\{[\s\S]*?\})\s*```' from position t on,
\* the fence and the optional tag being matched: blanks (all of them, a
\* blank is never a brace), an opening brace, then the shortest span that
\* ends in a closing brace followed by blanks and a fence.
FenceBody(s, t) ==
  LET b == SkipWs(s, t) IN
  IF b > Len(s) \/ s[b] # "{" THEN NoMatch
  ELSE LET ends == {e \in (b + 1)..Len(s) :
                      s[e] = "}" /\ IsAt(s, SkipWs(s, e + 1), Fence)}
       IN IF ends = {} THEN NoMatch
          ELSE [found |-> TRUE, group |-> SubSeq(s, b, Min(ends))]

\* The match attempt that starts at position i: the tag is tried first
\* (greedy ?), then the match without it.
FenceAt(s, i) ==
  IF ~IsAt(s, i, Fence) THEN NoMatch
  ELSE LET tagged == IF IsAt(s, i + 3, JsonTag)
                       THEN FenceBody(s, i + 3 + Len(JsonTag))
                       ELSE NoMatch
       IN IF tagged.found THEN tagged ELSE FenceBody(s, i + 3)

\* re.search(r'```(?:json)?\s*(\{[\s\S]*?\})\s*```', s): group(1) of the
\* match with the leftmost start.
FenceSearch(s) ==
  LET starts == {i \in 1..Len(s) : s[i] = Backtick /\ FenceAt(s, i).found}
  IN IF starts = {} THEN NoMatch ELSE FenceAt(s, Min(starts))

\* re.search(r'\{[\s\S]*\}', s): group(0), from the first opening brace to
\* the last closing brace after it.
BraceSearch(s) ==
  LET opens == {i \in 1..Len(s) : s[i] = "{"}
      closes == {j \in 1..Len(s) : s[j] = "}"}
  IN IF opens = {} \/ closes = {} \/ Max(closes) < Min(opens) THEN NoMatch
     ELSE [found |-> TRUE, group |-> SubSeq(s, Min(opens), Max(closes))]

---------------------------------------------------------------------------
(* extract_json, once per pipeline.  A return value is [ret, value]: ret   *)
(* names the return statement taken, "parsed" (a json.loads result) or     *)
(* "default" (the final return of the fallback dict).                      *)

Parsed(v) == [ret |-> "parsed", value |-> v]
Default(d) == [ret |-> "default", value |-> d]

\* The "markdown code block" strategy followed by the "raw JSON" strategy,
\* which all three implementations share; fallback is the final return.
FenceThenBrace(s, fallback) ==
  LET m1 == FenceSearch(s)
      p1 == IF m1.found THEN json_loads(m1.group) ELSE [ok |-> FALSE, v |-> NoValue]
      m2 == BraceSearch(s)
      p2 == IF m2.found THEN json_loads(m2.group) ELSE [ok |-> FALSE, v |-> NoValue]
  IN IF p1.ok THEN Parsed(p1.v)
     ELSE IF p2.ok THEN Parsed(p2.v)
     ELSE fallback

deep_default(s) ==
  [parse_error |-> TRUE,
   raw_text |-> Prefix(s, RawTextLimit),
   executives_found |-> <<>>,
   strategic_insights |-> <<>>]

revenue_default(s) ==
  [parse_error |-> TRUE,
   raw_text |-> Prefix(s, RawTextLimit),
   revenue_estimates |-> <<>>,
   ownership |-> [type |-> "unknown"],
   research_quality |-> [sources_found |-> 0,
                         red_flags |-> <<"json_parse_error">>]]

discovery_default(s) ==
  [error |-> "JSON parsing failed",
   raw_response |-> Prefix(s, RawResponseLimit)]

\* extract_json with a failed code-block parse returning the fallback at
\* once instead of passing on to the brace span.
extract_json_deep_no_fallthrough(s) ==
  LET p0 == json_loads(s)
      m1 == FenceSearch(s)
  IN IF p0.ok THEN Parsed(p0.v)
     ELSE IF m1.found /\ ~json_loads(m1.group).ok
       THEN Default(deep_default(s))
     ELSE FenceThenBrace(s, Default(deep_default(s)))

\* deep_analysis.py extract_json
extract_json_deep(s) ==
  LET p0 == json_loads(s) IN
  IF p0.ok THEN Parsed(p0.v)
  ELSE FenceThenBrace(s, Default(deep_default(s)))

\* revenue.py extract_json
extract_json_revenue(s) ==
  LET p0 == json_loads(s) IN
  IF p0.ok THEN Parsed(p0.v)
  ELSE FenceThenBrace(s, Default(revenue_default(s)))

\* discovery.py extract_json: no direct parse, code blocks first
extract_json_discovery(s) ==
  FenceThenBrace(s, Default(discovery_default(s)))

Impls == {"deep_analysis", "revenue", "discovery"}

extract_json(i, s) ==
  CASE i = "deep_analysis" -> extract_json_deep(s)
    [] i = "revenue" -> extract_json_revenue(s)
    [] i = "discovery" -> extract_json_discovery(s)

---------------------------------------------------------------------------
(* Inputs of the extractor: JSON documents up to MaxDepth levels deep,     *)
(* their truncations, each alone or wrapped in prose, blanks, fences or    *)
(* braces, or followed by prose long enough to reach an excerpt limit.     *)

Quoted(chars) == <<"\"">> \o chars \o <<"\"">>

Atoms ==
  { <<"1">>,
    Quoted(<<"a">>),
    Quoted(<<"}">>),
    Quoted(Fence \o <<"{", "}">> \o Fence) }

RECURSIVE Docs(_)
Docs(d) ==
  IF d = 0 THEN Atoms
  ELSE LET inner == Docs(d - 1) IN
    Atoms
    \cup { <<"{", "}">>, <<"[", "]">> }
    \cup { <<"{">> \o Quoted(<<"a">>) \o <<":">> \o x \o <<"}">> : x \in inner }
    \cup { <<"[">> \o x \o <<"]">> : x \in inner }
    \cup { <<"{">> \o Quoted(<<"a">>) \o <<":", "1", ",", " ">>
             \o Quoted(<<"a">>) \o <<":", " ">> \o x \o <<"}">> : x \in Atoms }

Truncated(d) == SubSeq(d, 1, Len(d) - 1)

AllDocs == Docs(MaxDepth) \cup { Truncated(d) : d \in Docs(MaxDepth) }

FenceOpeners ==
  { Fence, Fence \o JsonTag, Fence \o <<" ">>, Fence \o JsonTag \o <<" ">> }
FenceClosers == { Fence, <<" ">> \o Fence }

Openers ==
  FenceOpeners
  \cup { <<>>, <<"x">>, <<" ">>, <<"x">> \o Fence, <<"{">>,
         Fence \o <<"{", "}">> \o Fence }
Closers ==
  FenceClosers
  \cup { <<>>, <<"x">>, <<" ">>, Fence \o <<"x">>, <<"}">>,
         Fence \o <<"{", "}">> \o Fence }

PadLengths == { RawResponseLimit - PadSlack, RawTextLimit - PadSlack }

NoResult == [ret |-> "none", value |-> NoValue]

NoRecord == [x \in {} |-> 0]
\* exit_status is <<>> while the process runs and <<code>> once it ended.
NotExited == <<>>

\* The values of main's variables while no run of main is modelled.
MainIdle ==
  /\ cli = NoRecord
  /\ discovery_data = NoRecord
  /\ service = "none"
  /\ pc = "idle"
  /\ company_name = ""
  /\ domain = ""
  /\ sources = <<>>
  /\ yt_sources = <<>>
  /\ art_sources = <<>>
  /\ youtube_results = <<>>
  /\ article_results = <<>>
  /\ calls = <<>>
  /\ deep_intel = NoRecord
  /\ exit_status = NotExited

\* The values of revenue.py's variables while no run of it is modelled.
RIdle ==
  /\ response = NoRecord
  /\ revenue_data = NoRecord
  /\ confidence = NoRecord
  /\ rpc = "idle"
  /\ rexit = NotExited

DIdle ==
  /\ args = NoRecord
  /\ answers = NoRecord
  /\ intel = NoRecord
  /\ acquirer_calls = <<>>
  /\ dpc = "idle"

XInit ==
  /\ doc \in AllDocs
  /\ \/ \E o \in Openers, c \in Closers : text = o \o doc \o c
     \/ \E n \in PadLengths : text = doc \o Repeat("x", n)
  /\ impl = "none"
  /\ result = NoResult
  /\ xpc = "input"
  /\ MainIdle
  /\ RIdle
  /\ DIdle

\* One call extract_json(text) of pipeline i.
ExtractJson(i) ==
  /\ xpc = "input"
  /\ impl' = i
  /\ result' = extract_json(i, text)
  /\ xpc' = "returned"
  /\ UNCHANGED <<text, doc>>
  /\ UNCHANGED mvars
  /\ UNCHANGED rvars
  /\ UNCHANGED dvars

XNext == \E i \in Impls : ExtractJson(i)

SpecExtract == XInit /\ [][XNext]_vars

---------------------------------------------------------------------------
(* Properties of the extractor, checked under SpecExtract.                 *)

Returned == xpc = "returned"

\* The three strategies, each evaluated on its own.
DirectParse(s) == json_loads(s)
FenceParse(s) ==
  LET m == FenceSearch(s) IN
  IF m.found THEN json_loads(m.group) ELSE [ok |-> FALSE, v |-> NoValue]
BraceParse(s) ==
  LET m == BraceSearch(s) IN
  IF m.found THEN json_loads(m.group) ELSE [ok |-> FALSE, v |-> NoValue]

Unparseable(s) ==
  ~DirectParse(s).ok /\ ~FenceParse(s).ok /\ ~BraceParse(s).ok

IsObjectDoc(s) == json_loads(s).ok /\ json_loads(s).v.t = "obj"

\* C1: in each of the three implementations the strategies are tried in
\* the order whole text, fenced block, brace span, and the first success is
\* returned; stated here for its particular case: whenever the text is
\* itself a well-formed document (an object), the result is the direct
\* parse of the text.
C1_DirectParseWins ==
  (Returned /\ IsObjectDoc(text)) => result = Parsed(json_loads(text).v)

\* The fields each pipeline declares as empty defaults of a failure record,
\* and the field that holds the excerpt.
DefaultFields(i) ==
  CASE i = "deep_analysis" -> {"executives_found", "strategic_insights"}
    [] i = "revenue" -> {"revenue_estimates"}
    [] i = "discovery" -> {"strategic_statements", "company_priorities",
                           "key_executives", "ownership_changes"}
ExcerptField(i) == IF i = "discovery" THEN "raw_response" ELSE "raw_text"

IsEmptyCollection(x) == DOMAIN x = {}

\* C2: for every text that no strategy parses, extract_json returns a
\* failure record whose excerpt is exactly the first 2000 characters of the
\* text and in which every default field of the pipeline is present and is
\* an empty collection.
C2_FailureRecord ==
  (Returned /\ Unparseable(text)) =>
    /\ result.ret = "default"
    /\ result.value[ExcerptField(impl)] = Prefix(text, RawTextLimit)
    /\ \A f \in DefaultFields(impl) :
         f \in DOMAIN result.value /\ IsEmptyCollection(result.value[f])

\* text is doc between an opening fence (optionally tagged json) and a
\* closing fence, blanks allowed next to the fences.
IsFencedWrap(s, d) ==
  \E o \in FenceOpeners, c \in FenceClosers : s = o \o d \o c

\* C3: for every text that is a valid document (an object) wrapped in a
\* fenced block, optionally tagged json, extract_json of deep_analysis.py
\* and revenue.py returns the parsed value that extract_json returns for
\* the unwrapped interior.
C3_FencedSameAsInterior ==
  (Returned /\ impl \in {"deep_analysis", "revenue"}
     /\ IsObjectDoc(doc) /\ IsFencedWrap(text, doc))
  => (result.ret = "parsed" /\ result = extract_json(impl, doc))

\* C3's case has happened, in its hardest form: the fenced-block match
\* stops at a closing brace inside a string, does not parse, and the brace
\* span recovers the document.
C3_Witness ==
  /\ Returned /\ impl = "deep_analysis"
  /\ IsObjectDoc(doc) /\ IsFencedWrap(text, doc)
  /\ IsAt(text, 4, JsonTag)
  /\ FenceSearch(text).found /\ ~FenceParse(text).ok
  /\ result.ret = "parsed" /\ DOMAIN result.value.v # {}

\* C4: every value extract_json returns on success is a mapping from
\* string keys to values, whichever strategy succeeded.
C4_SuccessIsMapping ==
  (Returned /\ result.ret = "parsed") => result.value.t = "obj"

---------------------------------------------------------------------------
(* deep_analysis.py: routing of the discovered sources.                    *)

\* Bounds of the runs of main drawn as inputs.
\* Longest statement list drawn from the three plain statements.
MaxStmts == 7
\* Longest statement list drawn from all the statement variants.
MaxVaried == 2
\* Most results handed to one merge_deep_intel call of SpecMerge.
MaxSources == 2

MIN_RELEVANCE_THRESHOLD == 80
\* art_sources[:5]
ArticleLimit == 5
\* stmt.get("statement", "")[:200]
SnippetLimit == 200
\* sys.exit(0) when no source is relevant enough, and main's return 0
ExitSuccess == 0
\* sys.exit(1)
ExitFailure == 1

\* dict.get(k, default)
Get(d, k, default) == IF k \in DOMAIN d THEN d[k] ELSE default

\* d[k] = val on a dict
Put(d, k, val) == [x \in (DOMAIN d) \cup {k} |-> IF x = k THEN val ELSE d[x]]

\* a or b on strings
OrElse(a, b) == IF a # "" THEN a ELSE b

\* The outcome of a call: an exception leaving it, or its return value.
Raised(what) == [raised |-> TRUE, error |-> what]
Returns(val) == [raised |-> FALSE, value |-> val]

\* The entry get_high_relevance_sources appends for a statement.
SourceEntry(stmt) ==
  [url |-> Get(stmt, "source_url", ""),
   type |-> Get(stmt, "source_type", ""),
   relevance |-> Get(stmt, "outreach_relevance", 0),
   source_name |-> Get(stmt, "source_name", ""),
   snippet |-> Prefix(Get(stmt, "statement", <<>>), SnippetLimit)]

\* The test with > in place of >=.
IsRelevantStrict(stmt, threshold) ==
  Get(stmt, "outreach_relevance", 0) > threshold
    /\ Get(stmt, "source_url", "") # ""

\* relevance >= threshold and source_url
IsRelevant(stmt, threshold) ==
  Get(stmt, "outreach_relevance", 0) >= threshold
    /\ Get(stmt, "source_url", "") # ""

get_high_relevance_sources(data, threshold) ==
  LET statements == Get(data, "strategic_statements", <<>>)
      Keep(stmt) == IsRelevant(stmt, threshold)
      kept == SelectSeq(statements, Keep)
  IN [i \in 1..Len(kept) |-> SourceEntry(kept[i])]

ArticleTypes == {"news", "press_release", "interview", "article"}

\* The article test with podcasts taken for articles.
IsArticleSourceLoose(src) == src.type \in ArticleTypes \cup {"podcast"}

IsYoutubeSource(src) == src.type = "youtube"
IsArticleSource(src) == src.type \in ArticleTypes

\* The article batch with no limit.
ArticleBatchAll(arts) == arts

\* art_sources[:5]
ArticleBatch(arts) == Prefix(arts, ArticleLimit)

\* The status of the early exit, as a failure.
NoSourcesExit == ExitFailure

\* sys.exit(0) after "No sources found above ...% relevance"
NoSourcesStatus == ExitSuccess

---------------------------------------------------------------------------
(* deep_analysis.py: the follow-up calls.  The external service's answer   *)
(* to a call is one of: the call raises; the response text decodes to an   *)
(* object (given here already decoded, as a dict); it decodes to a value   *)
(* that is no object; no strategy of extract_json parses it.               *)

ServiceKinds == {"object", "non_object", "unparseable", "raises"}

\* Services whose answer changes from call to call: every odd-numbered
\* call of the run goes wrong, the others are answered with an object.
MixedKinds == {"raises_odd", "unparseable_odd", "non_object_odd"}

\* The answer to the n-th call of the run.
ServiceAnswer(kind, n) ==
  CASE kind = "raises_odd" -> IF n % 2 = 1 THEN "raises" ELSE "object"
    [] kind = "unparseable_odd" -> IF n % 2 = 1 THEN "unparseable" ELSE "object"
    [] kind = "non_object_odd" -> IF n % 2 = 1 THEN "non_object" ELSE "object"
    [] OTHER -> kind

YoutubeBody(url) ==
  [executives_found |-> <<url>>,
   strategic_insights |-> <<url, url>>,
   pain_points |-> <<"legacy", "slow", "legacy">>,
   outreach_angles |-> <<url>>,
   video_summary |-> "summary"]

ArticleBody(url) ==
  [headline_summary |-> "headline",
   executive_quotes |-> <<url>>,
   outreach_relevance |-> 85]

\* process_youtube / process_article without the except branch: an error
\* of the call or of the key assignment leaves the function.
ProcessResultUncaught(kind, body, url, stype) ==
  CASE kind = "object" ->
         Put(Put(body, "source_url", url), "source_type", stype)
    [] kind = "unparseable" ->
         Put(Put([parse_error |-> TRUE, raw_text |-> "excerpt",
                  executives_found |-> <<>>, strategic_insights |-> <<>>],
                 "source_url", url), "source_type", stype)
    [] OTHER -> Raised(kind)

\* extract_json(response.text) followed by the two key assignments of
\* process_youtube / process_article, or the except branch's record.
\* Assigning a key on a decoded value that is no dict raises TypeError,
\* which the except branch catches like an error of the call itself.
ProcessResult(kind, body, url, stype) ==
  CASE kind = "object" ->
         Put(Put(body, "source_url", url), "source_type", stype)
    [] kind = "unparseable" ->
         Put(Put([parse_error |-> TRUE, raw_text |-> "excerpt",
                  executives_found |-> <<>>, strategic_insights |-> <<>>],
                 "source_url", url), "source_type", stype)
    [] OTHER ->
         [error |-> kind, source_url |-> url, source_type |-> stype]

process_youtube(kind, url) ==
  ProcessResult(kind, YoutubeBody(url), url, "youtube")

process_article(kind, url) ==
  ProcessResult(kind, ArticleBody(url), url, "article")

---------------------------------------------------------------------------
(* deep_analysis.py: merge_deep_intel.                                     *)

\* The lists found under key k, concatenated newest first.
RECURSIVE ExtendAllReversed(_, _)
ExtendAllReversed(rs, k) ==
  IF rs = <<>> THEN <<>>
  ELSE ExtendAllReversed(Tail(rs), k) \o Get(Head(rs), k, <<>>)

\* The loop with a break at the first record that reports an error.
RECURSIVE ExtendUntilError(_, _)
ExtendUntilError(rs, k) ==
  IF rs = <<>> THEN <<>>
  ELSE IF "error" \in DOMAIN Head(rs) \/ "parse_error" \in DOMAIN Head(rs)
    THEN <<>>
  ELSE Get(Head(rs), k, <<>>) \o ExtendUntilError(Tail(rs), k)

\* for r in rs: if k in r: merged[...].extend(r[k])
RECURSIVE ExtendAll(_, _)
ExtendAll(rs, k) ==
  IF rs = <<>> THEN <<>>
  ELSE Get(Head(rs), k, <<>>) \o ExtendAll(Tail(rs), k)

Range(q) == {q[i] : i \in DOMAIN q}

\* list(xs) in place of list(set(xs)): the values as they were collected.
SetOrdersKeepDuplicates(xs) == {xs}

\* The orders list(set(xs)) may produce: the set's iteration order is not
\* fixed by the program.
SetOrders(xs) ==
  LET S == Range(xs)
  IN {q \in [1..Cardinality(S) -> S] : Range(q) = S}

\* merge_deep_intel; pain_order is the order list(set(...)) produced.
merge_deep_intel(name, dom, yts, arts, pain_order) ==
  [company_name |-> name,
   domain |-> dom,
   processed_at |-> "now",
   youtube_intel |-> yts,
   article_intel |-> arts,
   executives_found |-> ExtendAll(yts, "executives_found"),
   strategic_insights |-> ExtendAll(yts, "strategic_insights"),
   outreach_angles |-> ExtendAll(yts, "outreach_angles"),
   key_quotes |-> ExtendAll(arts, "executive_quotes"),
   pain_points |-> pain_order]

---------------------------------------------------------------------------
(* deep_analysis.py: main with --input, one action per step.               *)

XIdle ==
  /\ text = <<>>
  /\ doc = <<>>
  /\ impl = "none"
  /\ result = NoResult
  /\ xpc = "idle"

\* Loading done: names resolved, sources selected; either the early exit
\* or the split into YouTube and article sources.
Route ==
  /\ pc = "start"
  /\ company_name' =
       OrElse(cli.company_name, Get(discovery_data, "company_name", "Unknown"))
  /\ domain' = OrElse(cli.domain, Get(discovery_data, "domain", "unknown.com"))
  /\ sources' = get_high_relevance_sources(discovery_data, cli.threshold)
  /\ IF sources' = <<>>
       THEN /\ pc' = "exited"
            /\ exit_status' = <<NoSourcesStatus>>
            /\ UNCHANGED <<yt_sources, art_sources>>
       ELSE /\ pc' = "youtube"
            /\ yt_sources' = SelectSeq(sources', IsYoutubeSource)
            /\ art_sources' = SelectSeq(sources', IsArticleSource)
            /\ UNCHANGED exit_status
  /\ UNCHANGED <<cli, discovery_data, service, youtube_results,
                 article_results, calls, deep_intel>>
  /\ UNCHANGED xvars
  /\ UNCHANGED rvars
  /\ UNCHANGED dvars

\* One iteration of "for src in yt_sources".  An exception leaving
\* process_youtube would leave main as well and end the process.
ProcessYoutube ==
  /\ pc = "youtube"
  /\ Len(youtube_results) < Len(yt_sources)
  /\ LET src == yt_sources[Len(youtube_results) + 1]
         r == process_youtube(ServiceAnswer(service, Len(calls) + 1), src.url)
     IN /\ calls' = Append(calls, [fn |-> "process_youtube", url |-> src.url,
                                   company_name |-> company_name])
        /\ IF "raised" \in DOMAIN r
             THEN /\ pc' = "crashed"
                  /\ exit_status' = <<ExitFailure>>
                  /\ UNCHANGED youtube_results
             ELSE /\ youtube_results' =
                       Append(youtube_results,
                              Put(Put(r, "original_relevance", src.relevance),
                                  "source_name", Get(src, "source_name", "")))
                  /\ UNCHANGED <<pc, exit_status>>
  /\ UNCHANGED <<cli, discovery_data, service, company_name, domain,
                 sources, yt_sources, art_sources, article_results,
                 deep_intel>>
  /\ UNCHANGED xvars
  /\ UNCHANGED rvars
  /\ UNCHANGED dvars

YoutubeDone ==
  /\ pc = "youtube"
  /\ Len(youtube_results) = Len(yt_sources)
  /\ pc' = "articles"
  /\ UNCHANGED <<cli, discovery_data, service, company_name, domain, sources,
                 yt_sources, art_sources, youtube_results, article_results,
                 calls, deep_intel, exit_status>>
  /\ UNCHANGED xvars
  /\ UNCHANGED rvars
  /\ UNCHANGED dvars

\* One iteration of "for src in art_sources[:5]".
ProcessArticle ==
  /\ pc = "articles"
  /\ Len(article_results) < Len(ArticleBatch(art_sources))
  /\ LET src == ArticleBatch(art_sources)[Len(article_results) + 1]
         r == process_article(ServiceAnswer(service, Len(calls) + 1), src.url)
     IN /\ calls' = Append(calls, [fn |-> "process_article", url |-> src.url,
                                   company_name |-> company_name])
        /\ IF "raised" \in DOMAIN r
             THEN /\ pc' = "crashed"
                  /\ exit_status' = <<ExitFailure>>
                  /\ UNCHANGED article_results
             ELSE /\ article_results' =
                       Append(article_results,
                              Put(r, "original_relevance", src.relevance))
                  /\ UNCHANGED <<pc, exit_status>>
  /\ UNCHANGED <<cli, discovery_data, service, company_name, domain,
                 sources, yt_sources, art_sources, youtube_results,
                 deep_intel>>
  /\ UNCHANGED xvars
  /\ UNCHANGED rvars
  /\ UNCHANGED dvars

ArticlesDone ==
  /\ pc = "articles"
  /\ Len(article_results) = Len(ArticleBatch(art_sources))
  /\ pc' = "merge"
  /\ UNCHANGED <<cli, discovery_data, service, company_name, domain, sources,
                 yt_sources, art_sources, youtube_results, article_results,
                 calls, deep_intel, exit_status>>
  /\ UNCHANGED xvars
  /\ UNCHANGED rvars
  /\ UNCHANGED dvars

\* "Merge all results" to the end of main: the names are set again from
\* the command line alone, the results merged, and main returns 0.
Merge ==
  /\ pc = "merge"
  /\ company_name' = OrElse(cli.company_name, "Unknown")
  /\ domain' = OrElse(cli.domain, "unknown.com")
  /\ \E order \in SetOrders(ExtendAll(youtube_results, "pain_points")) :
       deep_intel' = merge_deep_intel(company_name', domain',
                                      youtube_results, article_results, order)
  /\ pc' = "done"
  /\ exit_status' = <<ExitSuccess>>
  /\ UNCHANGED <<cli, discovery_data, service, sources, yt_sources,
                 art_sources, youtube_results, article_results, calls>>
  /\ UNCHANGED xvars
  /\ UNCHANGED rvars
  /\ UNCHANGED dvars

MNext ==
  \/ Route
  \/ ProcessYoutube
  \/ YoutubeDone
  \/ ProcessArticle
  \/ ArticlesDone
  \/ Merge

---------------------------------------------------------------------------
(* Inputs of main: discovery files.                                        *)

\* Statements whose URL is still to be filled in.
Statement(relevance, type) ==
  [statement |-> <<"q">>, source_name |-> "name", source_url |-> "URL",
   outreach_relevance |-> relevance, source_type |-> type]

Without(d, k) == [x \in (DOMAIN d) \ {k} |-> d[x]]

SourceTypes ==
  {"youtube", "podcast", "press_release", "interview", "news", "sec_filing",
   "conference", "article"}

Relevant == MIN_RELEVANCE_THRESHOLD + 20

StatementVariants ==
  { Statement(Relevant, k) : k \in SourceTypes }
  \cup { Without(Statement(Relevant, "youtube"), "source_type") }
  \cup { Statement(r, k) :
           r \in {MIN_RELEVANCE_THRESHOLD - 1, MIN_RELEVANCE_THRESHOLD},
           k \in {"youtube", "news"} }
  \cup { Without(Statement(Relevant, k), "outreach_relevance") :
           k \in {"youtube", "news"} }
  \cup { Put(Statement(Relevant, k), "source_url", "") :
           k \in {"youtube", "news"} }
  \cup { Without(Statement(Relevant, k), "source_url") :
           k \in {"youtube", "news"} }

PlainStatements ==
  { Statement(MIN_RELEVANCE_THRESHOLD, "news"),
    Statement(Relevant, "youtube"),
    Statement(MIN_RELEVANCE_THRESHOLD - 1, "article") }

\* The i-th statement of a file gets the URL "i".
Numbered(q) ==
  [i \in 1..Len(q) |->
     IF Get(q[i], "source_url", "") = "URL"
       THEN Put(q[i], "source_url", ToString(i))
       ELSE q[i]]

StatementLists ==
  UNION { { Numbered(q) : q \in [1..n -> StatementVariants] } : n \in 0..MaxVaried }
  \cup
  UNION { { Numbered(q) : q \in [1..n -> PlainStatements] } : n \in 0..MaxStmts }

DiscoveryFiles ==
  { [company_name |-> "FileCo", domain |-> "file.example"] }
  \cup { [company_name |-> "FileCo", domain |-> "file.example",
          strategic_statements |-> q] : q \in StatementLists }

Thresholds == {0, MIN_RELEVANCE_THRESHOLD}

MInit ==
  /\ XIdle
  /\ RIdle
  /\ DIdle
  /\ cli \in { [company_name |-> "", domain |-> "", threshold |-> t] :
                 t \in Thresholds }
  /\ discovery_data \in DiscoveryFiles
  /\ service \in ServiceKinds
  /\ pc = "start"
  /\ company_name = ""
  /\ domain = ""
  /\ sources = <<>>
  /\ yt_sources = <<>>
  /\ art_sources = <<>>
  /\ youtube_results = <<>>
  /\ article_results = <<>>
  /\ calls = <<>>
  /\ deep_intel = NoRecord
  /\ exit_status = NotExited

SpecDeep == MInit /\ [][MNext]_vars

---------------------------------------------------------------------------
(* Properties of the routing, checked under SpecDeep.                      *)

Statements == Get(discovery_data, "strategic_statements", <<>>)
RelevanceOf(stmt) ==
  IF "outreach_relevance" \in DOMAIN stmt THEN stmt.outreach_relevance ELSE 0
UrlOf(stmt) == IF "source_url" \in DOMAIN stmt THEN stmt.source_url ELSE ""
KindOf(stmt) == IF "source_type" \in DOMAIN stmt THEN stmt.source_type ELSE ""

Routed == pc \notin {"start", "idle"}
Finished == pc = "done"

\* The statement survives the relevance / url filter.
Survives(stmt) == RelevanceOf(stmt) >= cli.threshold /\ UrlOf(stmt) # ""

PrimaryKinds == {"youtube"}
SecondaryKinds == {"article", "press_release", "interview", "news"}

\* The URLs of the surviving statements of the given kinds, in input order.
SurvivorUrls(kinds) ==
  LET Test(stmt) == Survives(stmt) /\ KindOf(stmt) \in kinds
      kept == SelectSeq(Statements, Test)
  IN [i \in 1..Len(kept) |-> UrlOf(kept[i])]

\* The URLs of the calls made to fn, in call order.
CallUrls(fn) ==
  LET Test(c) == c.fn = fn
      made == SelectSeq(calls, Test)
  IN [i \in 1..Len(made) |-> made[i].url]

UrlsOf(srcs) == [i \in 1..Len(srcs) |-> srcs[i].url]

CalledUrls == {calls[i].url : i \in DOMAIN calls}

\* C5: no source that reaches follow-up processing has relevance below the
\* threshold or an empty url; the selected sources are exactly the
\* statements with a non-empty url whose relevance, 0 when the field is
\* missing, is at least the threshold (so relevance = threshold is kept).
C5_RelevanceFilter ==
  /\ \A u \in CalledUrls :
       /\ u # ""
       /\ \A i \in DOMAIN Statements :
            UrlOf(Statements[i]) = u => RelevanceOf(Statements[i]) >= cli.threshold
       /\ \E i \in DOMAIN Statements : UrlOf(Statements[i]) = u
  /\ Routed =>
       \A i \in DOMAIN Statements :
         Survives(Statements[i])
           <=> (\E j \in DOMAIN sources : sources[j].url = UrlOf(Statements[i]))

\* A run has ended in which a statement exactly at the threshold was
\* followed up and a statement with a url but no relevance field was not
\* selected.
C5_Witness ==
  /\ Finished
  /\ cli.threshold = MIN_RELEVANCE_THRESHOLD
  /\ \E i, j \in DOMAIN Statements :
       /\ "outreach_relevance" \in DOMAIN Statements[i]
       /\ Statements[i].outreach_relevance = cli.threshold
       /\ UrlOf(Statements[i]) \in CalledUrls
       /\ "outreach_relevance" \notin DOMAIN Statements[j]
       /\ UrlOf(Statements[j]) # ""
       /\ \A k \in DOMAIN sources : sources[k].url # UrlOf(Statements[j])

FirstFive(q) == SubSeq(q, 1, IF Len(q) < 5 THEN Len(q) ELSE 5)

\* C6: the article sources followed up are exactly the first min(5, n)
\* surviving secondary candidates in input order, so at most 5 article
\* calls are made per run; every surviving video candidate is followed up.
C6_ArticleCap ==
  /\ Len(CallUrls("process_article")) <= 5
  /\ Finished =>
       /\ CallUrls("process_article") = FirstFive(SurvivorUrls(SecondaryKinds))
       /\ CallUrls("process_youtube") = SurvivorUrls(PrimaryKinds)

\* A run has ended with more than five surviving article candidates, five
\* article calls and a video call.
C6_Witness ==
  /\ Finished
  /\ Len(SurvivorUrls(SecondaryKinds)) > 5
  /\ Len(CallUrls("process_article")) = 5
  /\ Len(CallUrls("process_youtube")) >= 1

NoSurvivor == \A i \in DOMAIN Statements : ~Survives(Statements[i])

\* C8: when no candidate survives the filter, primary and secondary are
\* empty, no follow-up call is made, and the run ends there with a success
\* status.
C8_EmptyRouting ==
  (Routed /\ NoSurvivor) =>
    /\ pc = "exited"
    /\ exit_status = <<0>>
    /\ calls = <<>>
    /\ yt_sources = <<>> /\ art_sources = <<>>
    /\ youtube_results = <<>> /\ article_results = <<>>

\* A run of a file with statements, none of which survives, has ended.
C8_Witness ==
  /\ pc = "exited"
  /\ Len(Statements) >= 2
  /\ NoSurvivor
  /\ exit_status = <<0>>

---------------------------------------------------------------------------
(* Inputs of merge_deep_intel alone: result lists mixing parsed records,   *)
(* parse-failure records and error records.                                *)

Join(a, b) ==
  [k \in (DOMAIN a) \cup (DOMAIN b) |-> IF k \in DOMAIN a THEN a[k] ELSE b[k]]

ExecutiveOptions ==
  { NoRecord,
    [executives_found |-> <<"e1">>],
    [executives_found |-> <<"e2", "e1">>] }
PainOptions ==
  { NoRecord,
    [pain_points |-> <<"p1">>],
    [pain_points |-> <<"p2", "p1", "p2">>] }
InsightOptions == { NoRecord, [strategic_insights |-> <<"s1">>] }
AngleOptions == { NoRecord, [outreach_angles |-> <<"o1", "o1">>] }

YoutubeFailures ==
  { [parse_error |-> TRUE, raw_text |-> "excerpt", executives_found |-> <<>>,
     strategic_insights |-> <<>>, source_url |-> "u",
     source_type |-> "youtube"],
    [error |-> "raises", source_url |-> "u", source_type |-> "youtube"] }

YoutubeRecords ==
  { Join(Join(Join(Join(e, p), i), a),
         [source_url |-> "u", source_type |-> "youtube"]) :
      e \in ExecutiveOptions, p \in PainOptions,
      i \in InsightOptions, a \in AngleOptions }
  \cup YoutubeFailures

ArticleFailures ==
  { [parse_error |-> TRUE, raw_text |-> "excerpt", executives_found |-> <<>>,
     strategic_insights |-> <<>>, source_url |-> "u",
     source_type |-> "article"],
    [error |-> "raises", source_url |-> "u", source_type |-> "article"] }

ArticleRecords ==
  { [source_url |-> "u", source_type |-> "article"],
    [executive_quotes |-> <<"q1">>, source_url |-> "u",
     source_type |-> "article"],
    [executive_quotes |-> <<"q2", "q1", "q2">>, source_url |-> "u",
     source_type |-> "article"] }
  \cup ArticleFailures

\* main is about to merge the results it has collected.
GInit ==
  /\ XIdle
  /\ RIdle
  /\ DIdle
  /\ cli = [company_name |-> "", domain |-> "", threshold |-> MIN_RELEVANCE_THRESHOLD]
  /\ discovery_data = NoRecord
  /\ service = "none"
  /\ pc = "merge"
  /\ company_name = "FileCo"
  /\ domain = "file.example"
  /\ sources = <<>>
  /\ yt_sources = <<>>
  /\ art_sources = <<>>
  /\ \E n \in 0..MaxSources :
       \E m \in 0..(MaxSources - n) :
         /\ youtube_results \in [1..n -> YoutubeRecords]
         /\ article_results \in [1..m -> ArticleRecords]
  /\ calls = <<>>
  /\ deep_intel = NoRecord
  /\ exit_status = NotExited

SpecMerge == GInit /\ [][Merge]_vars

---------------------------------------------------------------------------
(* Properties of the merge, checked under SpecMerge.                       *)

IsFailedRecord(r) == "parse_error" \in DOMAIN r \/ "error" \in DOMAIN r
IsParsedRecord(r) == ~IsFailedRecord(r)

ParsedOnly(rs) == SelectSeq(rs, IsParsedRecord)

ConcatCategories == {"executives_found", "strategic_insights", "outreach_angles"}

\* C9: a failed source (a parse-failure record or an error record)
\* contributes nothing to a merged category and does not abort the merge:
\* the merged categories are those of merging the parsed sources alone,
\* and when every source is failed they are all empty.
C9_FailedContributeNothing ==
  Finished =>
    /\ \A k \in ConcatCategories :
         deep_intel[k] = ExtendAll(ParsedOnly(youtube_results), k)
    /\ deep_intel.key_quotes
         = ExtendAll(ParsedOnly(article_results), "executive_quotes")
    /\ Range(deep_intel.pain_points)
         = Range(ExtendAll(ParsedOnly(youtube_results), "pain_points"))
    /\ ((\A i \in DOMAIN youtube_results : IsFailedRecord(youtube_results[i]))
        /\ (\A i \in DOMAIN article_results : IsFailedRecord(article_results[i])))
       => /\ \A k \in ConcatCategories : deep_intel[k] = <<>>
          /\ deep_intel.key_quotes = <<>>
          /\ deep_intel.pain_points = <<>>

\* A merge has run over a failed source followed by a parsed source that
\* carries executives and pain points.
C9_Witness ==
  /\ Finished
  /\ Len(youtube_results) = 2
  /\ IsFailedRecord(youtube_results[1])
  /\ IsParsedRecord(youtube_results[2])
  /\ deep_intel.executives_found # <<>>
  /\ deep_intel.pain_points # <<>>

\* The list held under key k by each record, <<>> where the key is absent.
ListsOf(rs, k) == [i \in 1..Len(rs) |-> IF k \in DOMAIN rs[i] THEN rs[i][k] ELSE <<>>]

RECURSIVE TotalLen(_, _)
TotalLen(ls, n) == IF n = 0 THEN 0 ELSE TotalLen(ls, n - 1) + Len(ls[n])

\* out is the lists of ls laid end to end, in order.
IsConcatenation(out, ls) ==
  /\ Len(out) = TotalLen(ls, Len(ls))
  /\ \A i \in 1..Len(ls) : \A j \in 1..Len(ls[i]) :
       out[TotalLen(ls, i - 1) + j] = ls[i][j]

\* C10: each concatenated category is exactly the concatenation, in source
\* order, of the lists of the sources that carry the key: duplicates and
\* order are kept and the length is the sum of the contributing lengths.
C10_ConcatInSourceOrder ==
  Finished =>
    /\ \A k \in ConcatCategories :
         IsConcatenation(deep_intel[k], ListsOf(youtube_results, k))
    /\ IsConcatenation(deep_intel.key_quotes,
                       ListsOf(article_results, "executive_quotes"))

\* A merge has run over two sources with different executive lists, the
\* merged list holding a duplicate.
C10_Witness ==
  /\ Finished
  /\ Len(youtube_results) = 2
  /\ "executives_found" \in DOMAIN youtube_results[1]
  /\ "executives_found" \in DOMAIN youtube_results[2]
  /\ youtube_results[1].executives_found # youtube_results[2].executives_found
  /\ Len(deep_intel.executives_found) = 3
  /\ Cardinality(Range(deep_intel.executives_found)) = 2

\* The lists rs can be reordered into.
Reorderings(rs) ==
  { [i \in 1..Len(rs) |-> rs[p[i]]] : p \in Permutations(1..Len(rs)) }

\* Every value some source lists under pain_points.
PainValues(rs) ==
  UNION { Range(rs[i].pain_points) :
            i \in {j \in 1..Len(rs) : "pain_points" \in DOMAIN rs[j]} }

\* C11: the merged pain_points holds every value of any source's
\* pain_points exactly once and nothing else, and merging the sources in
\* any other order gives the same set of pain points.
C11_PainPointsDeduplicated ==
  Finished =>
    /\ Range(deep_intel.pain_points) = PainValues(youtube_results)
    /\ Len(deep_intel.pain_points) = Cardinality(PainValues(youtube_results))
    /\ \A rs \in Reorderings(youtube_results) :
         \A order \in SetOrders(ExtendAll(rs, "pain_points")) :
           LET other == merge_deep_intel(company_name, domain, rs,
                                         article_results, order)
           IN /\ Range(other.pain_points) = Range(deep_intel.pain_points)
              /\ Len(other.pain_points) = Len(deep_intel.pain_points)

\* A merge has run over two sources that share a pain point, one of them
\* repeating it, and merging them the other way round gives a different
\* executives list: the concatenated categories depend on the order.
C11_Witness ==
  /\ Finished
  /\ Len(youtube_results) = 2
  /\ "pain_points" \in DOMAIN youtube_results[1]
  /\ "pain_points" \in DOMAIN youtube_results[2]
  /\ Len(youtube_results[1].pain_points) = 3
  /\ Len(deep_intel.pain_points) = 2
  /\ \E rs \in Reorderings(youtube_results) :
       ExtendAll(rs, "executives_found") # deep_intel.executives_found

---------------------------------------------------------------------------
(* revenue.py: calculate_confidence.  Amounts are whole millions; the      *)
(* comparisons of variance_pct are made in exact arithmetic.               *)

\* Longest estimate list drawn as input.
MaxEstimates == 4

\* levels = ["INSUFFICIENT", "LOW", "MODERATE", "MODERATE-HIGH", "HIGH"]
Levels == <<"INSUFFICIENT", "LOW", "MODERATE", "MODERATE-HIGH", "HIGH">>

\* levels.index(level), counted from 1
LevelIndex(level) == CHOOSE i \in 1..Len(Levels) : Levels[i] = level

\* "if not estimates: return ..." with a different level.
EmptyLevelLow == "LOW"

\* The level returned for an empty or absent estimate list.
EmptyLevel == "INSUFFICIENT"

\* max(e.get("credibility_score", 0) for e in estimates)
BestCredibility(estimates) ==
  Max({ Get(estimates[i], "credibility_score", 0) : i \in 1..Len(estimates) })

IsPositiveAmount(e) == Get(e, "amount_millions", 0) > 0

\* The amounts of all estimates, a missing or zero amount as 0.
AllAmounts(estimates) ==
  [i \in 1..Len(estimates) |-> Get(estimates[i], "amount_millions", 0)]

\* amounts = [e.get("amount_millions", 0) for e in estimates if ... > 0]
PositiveAmounts(estimates) ==
  LET kept == SelectSeq(estimates, IsPositiveAmount)
  IN [i \in 1..Len(kept) |-> kept[i].amount_millions]

RECURSIVE Sum(_)
Sum(q) == IF q = <<>> THEN 0 ELSE Head(q) + Sum(Tail(q))

\* variance_pct > pct, where variance_pct is
\* (max - min) / (sum / len) * 100 for two or more amounts, else 0.
VarianceExceeds(amounts, pct) ==
  /\ Len(amounts) >= 2
  /\ (Max(Range(amounts)) - Min(Range(amounts))) * 100 * Len(amounts)
       > pct * Sum(amounts)

\* variance_pct as the fraction num / den:
\* (max - min) / (sum / len) * 100 for two or more amounts, else 0.
variance_pct(amounts) ==
  IF Len(amounts) >= 2
    THEN [num |-> (Max(Range(amounts)) - Min(Range(amounts))) * 100 * Len(amounts),
          den |-> Sum(amounts)]
    ELSE [num |-> 0, den |-> 1]

\* The rule table with its first two rules exchanged.
BaseLevelSwapped(best, count, amounts) ==
  IF best >= 70 /\ count >= 2 /\ ~VarianceExceeds(amounts, 40)
    THEN "MODERATE-HIGH"
  ELSE IF best >= 80 /\ count >= 2 /\ ~VarianceExceeds(amounts, 20)
    THEN "HIGH"
  ELSE IF best >= 80 /\ count = 1 THEN "MODERATE-HIGH"
  ELSE IF best >= 50 /\ count >= 2 THEN "MODERATE"
  ELSE IF best >= 60 /\ count = 1 THEN "MODERATE"
  ELSE "LOW"

\* The rule table without its variance conditions.
BaseLevelIgnoringVariance(best, count, amounts) ==
  IF best >= 80 /\ count >= 2 THEN "HIGH"
  ELSE IF best >= 70 /\ count >= 2 THEN "MODERATE-HIGH"
  ELSE IF best >= 80 /\ count = 1 THEN "MODERATE-HIGH"
  ELSE IF best >= 50 /\ count >= 2 THEN "MODERATE"
  ELSE IF best >= 60 /\ count = 1 THEN "MODERATE"
  ELSE "LOW"

\* The rule table with its fourth rule admitting a best credibility of 40.
BaseLevelLowPairs(best, count, amounts) ==
  IF best >= 80 /\ count >= 2 /\ ~VarianceExceeds(amounts, 20)
    THEN "HIGH"
  ELSE IF best >= 70 /\ count >= 2 /\ ~VarianceExceeds(amounts, 40)
    THEN "MODERATE-HIGH"
  ELSE IF best >= 80 /\ count = 1 THEN "MODERATE-HIGH"
  ELSE IF best >= 40 /\ count >= 2 THEN "MODERATE"
  ELSE IF best >= 60 /\ count = 1 THEN "MODERATE"
  ELSE "LOW"

\* The rule table with a single source of credibility 60 or more rated
\* MODERATE-HIGH.
BaseLevelSingleGenerous(best, count, amounts) ==
  IF best >= 80 /\ count >= 2 /\ ~VarianceExceeds(amounts, 20)
    THEN "HIGH"
  ELSE IF best >= 70 /\ count >= 2 /\ ~VarianceExceeds(amounts, 40)
    THEN "MODERATE-HIGH"
  ELSE IF best >= 80 /\ count = 1 THEN "MODERATE-HIGH"
  ELSE IF best >= 50 /\ count >= 2 THEN "MODERATE"
  ELSE IF best >= 60 /\ count = 1 THEN "MODERATE-HIGH"
  ELSE "LOW"

\* The "5-tier confidence" if / elif chain.
BaseLevel(best, count, amounts) ==
  IF best >= 80 /\ count >= 2 /\ ~VarianceExceeds(amounts, 20)
    THEN "HIGH"
  ELSE IF best >= 70 /\ count >= 2 /\ ~VarianceExceeds(amounts, 40)
    THEN "MODERATE-HIGH"
  ELSE IF best >= 80 /\ count = 1 THEN "MODERATE-HIGH"
  ELSE IF best >= 50 /\ count >= 2 THEN "MODERATE"
  ELSE IF best >= 60 /\ count = 1 THEN "MODERATE"
  ELSE "LOW"

\* The high-variance demotion as a decrement by one level.
VarianceDemotionOneStep(level, has_high_variance) ==
  IF has_high_variance /\ level \in {"HIGH", "MODERATE-HIGH"}
    THEN Levels[LevelIndex(level) - 1]
    ELSE level

\* if has_high_variance and confidence in ["HIGH", "MODERATE-HIGH"]
VarianceDemotion(level, has_high_variance) ==
  IF has_high_variance /\ level \in {"HIGH", "MODERATE-HIGH"}
    THEN "MODERATE"
    ELSE level

\* The stale_data step moving one level up instead of down.
StaleDemotionUp(level, has_stale_data) ==
  IF has_stale_data /\ level # "INSUFFICIENT"
    THEN Levels[Min({Len(Levels), LevelIndex(level) + 1})]
    ELSE level

\* if has_stale_data and confidence != "INSUFFICIENT":
\*     confidence = levels[max(0, idx - 1)]
StaleDemotion(level, has_stale_data) ==
  IF has_stale_data /\ level # "INSUFFICIENT"
    THEN Levels[Max({1, LevelIndex(level) - 1})]
    ELSE level

\* calculate_confidence: the values its local confidence takes, the last
\* of them returned.
calculate_confidence(d) ==
  LET estimates == Get(d, "revenue_estimates", <<>>)
      quality == Get(d, "research_quality", NoRecord)
  IN IF estimates = <<>>
       THEN [base |-> "none", demoted |-> "none", returned |-> EmptyLevel]
       ELSE
         LET best_credibility == BestCredibility(estimates)
             source_count == Len(estimates)
             amounts == PositiveAmounts(estimates)
             red_flags == Range(Get(quality, "red_flags", <<>>))
             has_high_variance ==
               VarianceExceeds(amounts, 300) \/ "high_variance" \in red_flags
             has_stale_data == "stale_data" \in red_flags
             base == BaseLevel(best_credibility, source_count, amounts)
             demoted == VarianceDemotion(base, has_high_variance)
         IN [source_count |-> source_count,
             variance_pct |-> variance_pct(amounts),
             base |-> base, demoted |-> demoted,
             returned |-> StaleDemotion(demoted, has_stale_data)]

---------------------------------------------------------------------------
(* revenue.py: research_revenue and main.  The service's answer is one of: *)
(* the call raises; a response text, which extract_json is run on; a       *)
(* response whose text is a JSON object, given by the dict it decodes to.  *)

\* extract_json(response.text)
ExtractResponse(resp) ==
  IF resp.kind = "text"
    THEN extract_json_revenue(resp.text)
    ELSE Parsed([t |-> "obj", v |-> resp.body])

\* The value is a dict: the fallback dict or a decoded JSON object.
IsDict(r) == r.ret = "default" \/ r.value.t = "obj"

DictOf(r) == IF r.ret = "default" THEN r.value ELSE r.value.v

\* if key not in result: result[key] = val
PutDefault(d, k, val) == IF k \in DOMAIN d THEN d ELSE Put(d, k, val)

\* research_revenue raising when the response could not be parsed.
research_revenue_strict(resp, dom, name) ==
  IF resp.kind = "raises" THEN Raised("service")
  ELSE LET r == ExtractResponse(resp)
       IN IF ~IsDict(r) THEN Raised("TypeError")
          ELSE IF "parse_error" \in DOMAIN DictOf(r) THEN Raised("ValueError")
          ELSE Returns(PutDefault(PutDefault(DictOf(r), "domain", dom),
                                  "company_name", name))

\* research_revenue: the call, extract_json and the two key defaults.
\* On a decoded value that is no dict the membership test or the key
\* assignment raises TypeError.
research_revenue(resp, dom, name) ==
  IF resp.kind = "raises" THEN Raised("service")
  ELSE LET r == ExtractResponse(resp)
       IN IF ~IsDict(r) THEN Raised("TypeError")
          ELSE Returns(PutDefault(PutDefault(DictOf(r), "domain", dom),
                                  "company_name", name))

\* main's try block around research_revenue.
ResearchRevenue ==
  /\ rpc = "start"
  /\ LET out == research_revenue(response, "example.com", "Example")
     IN IF out.raised
          THEN /\ rpc' = "exited"
               /\ rexit' = <<ExitFailure>>
               /\ UNCHANGED revenue_data
          ELSE /\ rpc' = "score"
               /\ revenue_data' = out.value
               /\ UNCHANGED rexit
  /\ UNCHANGED <<response, confidence>>
  /\ UNCHANGED <<xvars, mvars>>
  /\ UNCHANGED dvars

\* calculate_confidence(data), the metadata and the rest of main.
CalculateConfidence ==
  /\ rpc = "score"
  /\ confidence' = calculate_confidence(revenue_data)
  /\ revenue_data' =
       Put(revenue_data, "_metadata",
           [collected_at |-> "now", confidence |-> confidence'.returned,
            model |-> "gemini-2.0-flash"])
  /\ rpc' = "done"
  /\ rexit' = <<ExitSuccess>>
  /\ UNCHANGED response
  /\ UNCHANGED <<xvars, mvars>>
  /\ UNCHANGED dvars

RNext ==
  \/ ResearchRevenue
  \/ CalculateConfidence

---------------------------------------------------------------------------
(* Inputs of revenue.py: the service's answers.                            *)

CredibilityOptions ==
  {NoRecord} \cup
  { [credibility_score |-> c] : c \in {20, 49, 50, 59, 60, 69, 70, 79, 80, 90} }
AmountOptions ==
  {NoRecord} \cup { [amount_millions |-> a] : a \in {0, 2, 3, 9, 11, 40} }

FirstEstimates == { Join(c, a) : c \in CredibilityOptions, a \in AmountOptions }
RestEstimates ==
  { [credibility_score |-> 20, amount_millions |-> 2],
    [credibility_score |-> 90, amount_millions |-> 2],
    [credibility_score |-> 90, amount_millions |-> 11],
    [credibility_score |-> 20, amount_millions |-> 40] }

EstimateLists ==
  UNION { { <<f>> \o r : f \in FirstEstimates,
                         r \in [1..(n - 1) -> RestEstimates] } :
          n \in 1..MaxEstimates }

QualityOptions ==
  {NoRecord} \cup
  { [research_quality |-> [sources_found |-> 1, red_flags |-> fl]] :
      fl \in { <<"single_source">>, <<"high_variance">>, <<"stale_data">>,
               <<"stale_data", "high_variance">> } }

RevenueDocuments ==
  { Join(e, q) :
      e \in {NoRecord, [revenue_estimates |-> <<>>]}
             \cup { [revenue_estimates |-> l] : l \in EstimateLists },
      q \in QualityOptions }

\* Response texts: prose, JSON values that are no object, an empty object.
RevenueTexts ==
  { <<"n", "o">>, <<"1">>, <<"[", "]">>, <<"\"", "a", "\"">>, <<"{", "}">>,
    <<"{", "1">> }

Responses ==
  { [kind |-> "raises"] }
  \cup { [kind |-> "text", text |-> t] : t \in RevenueTexts }
  \cup { [kind |-> "document", body |-> d] : d \in RevenueDocuments }

RInit ==
  /\ XIdle
  /\ MainIdle
  /\ DIdle
  /\ response \in Responses
  /\ revenue_data = NoRecord
  /\ confidence = NoRecord
  /\ rpc = "start"
  /\ rexit = NotExited

SpecRevenue == RInit /\ [][RNext]_vars

---------------------------------------------------------------------------
(* Properties of the confidence scoring, checked under SpecRevenue.        *)

Scored == rpc = "done"

Estimates == Get(revenue_data, "revenue_estimates", <<>>)
Flags == Range(Get(Get(revenue_data, "research_quality", NoRecord),
                   "red_flags", <<>>))
Amounts == PositiveAmounts(Estimates)
StaleFlagged == "stale_data" \in Flags
HighVariance == "high_variance" \in Flags \/ VarianceExceeds(Amounts, 300)

\* C12: calculate_confidence returns INSUFFICIENT whenever the estimate
\* list is empty or absent, whatever red flags are present.
C12_EmptyIsInsufficient ==
  (Scored /\ Estimates = <<>>) => confidence.returned = "INSUFFICIENT"

\* An empty estimate list flagged both stale and high-variance was scored.
C12_Witness ==
  /\ Scored
  /\ "revenue_estimates" \in DOMAIN revenue_data
  /\ Estimates = <<>>
  /\ {"stale_data", "high_variance"} \subseteq Flags
  /\ confidence.returned = "INSUFFICIENT"

\* C13: for a non-empty estimate list with neither the high_variance nor
\* the stale_data flag, the level returned is that of the first matching
\* rule of the table, best being the highest credibility and count the
\* number of estimates.
C13_RuleTable ==
  (Scored /\ Estimates # <<>> /\ "high_variance" \notin Flags /\ ~StaleFlagged) =>
    LET best == BestCredibility(Estimates)
        count == Len(Estimates)
        r1 == best >= 80 /\ count >= 2 /\ ~VarianceExceeds(Amounts, 20)
        r2 == best >= 70 /\ count >= 2 /\ ~VarianceExceeds(Amounts, 40)
        r3 == best >= 80 /\ count = 1
        r4 == best >= 50 /\ count >= 2
        r5 == best >= 60 /\ count = 1
        got == confidence.returned
    IN /\ r1 => got = "HIGH"
       /\ (~r1 /\ r2) => got = "MODERATE-HIGH"
       /\ (~r1 /\ ~r2 /\ r3) => got = "MODERATE-HIGH"
       /\ (~r1 /\ ~r2 /\ ~r3 /\ r4) => got = "MODERATE"
       /\ (~r1 /\ ~r2 /\ ~r3 /\ ~r4 /\ r5) => got = "MODERATE"
       /\ (~r1 /\ ~r2 /\ ~r3 /\ ~r4 /\ ~r5) => got = "LOW"

\* Two unflagged estimates whose variance_pct is exactly 20, matching both
\* of the first two rules, were scored HIGH.
C13_Witness ==
  /\ Scored
  /\ Flags = {"single_source"}
  /\ Len(Estimates) = 2
  /\ Amounts = <<9, 11>>
  /\ confidence.returned = "HIGH"

\* C14: with the stale_data flag and a non-empty estimate list the level
\* is lowered by exactly one step and never below LOW, so INSUFFICIENT is
\* never returned for a non-empty list.
C14_StaleFlooredAtLow ==
  (Scored /\ Estimates # <<>> /\ StaleFlagged) =>
    /\ confidence.returned # "INSUFFICIENT"
    /\ confidence.returned =
         Levels[Max({2, LevelIndex(confidence.demoted) - 1})]

\* C15: when the high-variance demotion applies (base level HIGH or
\* MODERATE-HIGH) the result is MODERATE even if stale_data is flagged.
C15_DemotionsExclusive ==
  (Scored /\ Estimates # <<>> /\ HighVariance
     /\ confidence.base \in {"HIGH", "MODERATE-HIGH"}) =>
    confidence.returned = "MODERATE"

\* C16: with the high_variance flag or variance_pct > 300, a base level of
\* HIGH or MODERATE-HIGH is set to MODERATE; a base level of MODERATE or
\* LOW is left as it is.
C16_VarianceForcesModerate ==
  (Scored /\ Estimates # <<>> /\ HighVariance) =>
    /\ confidence.base \in {"HIGH", "MODERATE-HIGH"}
         => confidence.demoted = "MODERATE"
    /\ confidence.base \in {"MODERATE", "LOW"}
         => confidence.demoted = confidence.base
    /\ ~StaleFlagged => confidence.returned = confidence.demoted

\* Estimates with base level HIGH and the high_variance flag alone were
\* scored MODERATE.
C16_Witness ==
  /\ Scored
  /\ Flags = {"high_variance"}
  /\ confidence.base = "HIGH"
  /\ confidence.returned = "MODERATE"

\* Two estimates of credibility 90 and 20, no red flag, positive amounts
\* more than a factor 3 apart.
TwoFarApart ==
  /\ Len(Estimates) = 2
  /\ {Estimates[1].credibility_score, Estimates[2].credibility_score} = {90, 20}
  /\ Flags \cap {"high_variance", "stale_data"} = {}
  /\ Len(Amounts) = 2
  /\ Max(Range(Amounts)) > 3 * Min(Range(Amounts))

HasCredibility(e) == "credibility_score" \in DOMAIN e

\* C17 as stated: such estimates have variance_pct > 300 and are scored
\* MODERATE by the variance demotion overriding a base level of HIGH.
C17_VarianceOverridesHigh ==
  (Scored /\ Len(Estimates) = 2 /\ (\A i \in 1..2 : HasCredibility(Estimates[i]))
     /\ TwoFarApart) =>
    /\ VarianceExceeds(Amounts, 300)
    /\ confidence.base = "HIGH"
    /\ confidence.returned = "MODERATE"

\* C17 amended: such estimates are scored MODERATE because the rule table
\* selects MODERATE itself: their variance_pct is above 40 and, as for any
\* two amounts, below 200, the base level is not HIGH and the variance
\* demotion changes nothing.
C17_TableSelectsModerate ==
  /\ (Scored /\ Len(Amounts) = 2) => ~VarianceExceeds(Amounts, 200)
  /\ (Scored /\ Len(Estimates) = 2 /\ (\A i \in 1..2 : HasCredibility(Estimates[i]))
       /\ TwoFarApart) =>
      /\ VarianceExceeds(Amounts, 40)
      /\ confidence.base = "MODERATE"
      /\ confidence.demoted = "MODERATE"
      /\ confidence.returned = "MODERATE"

\* Credibility 90 at 40 millions and credibility 20 at 2 millions, with no
\* relevant flag, were scored.
C17_Witness ==
  /\ Scored
  /\ Len(Estimates) = 2
  /\ (\A i \in 1..2 : HasCredibility(Estimates[i]))
  /\ TwoFarApart
  /\ Amounts = <<40, 2>>
  /\ confidence.returned = "MODERATE"

\* C18: no component raises: research_revenue returns a value for every
\* response the service gives, so the run fails only when the call to the
\* service itself fails.
C18_NothingRaises ==
  rpc = "exited" => response.kind = "raises"

\* C20: a response no strategy can parse does not abort the run:
\* research_revenue returns the failure record and calculate_confidence
\* on it returns INSUFFICIENT.
C20_UnparseableIsInsufficient ==
  (response.kind = "text" /\ Unparseable(response.text)) =>
    /\ rpc # "exited"
    /\ rpc \in {"score", "done"} =>
         /\ "parse_error" \in DOMAIN revenue_data
         /\ revenue_data.revenue_estimates = <<>>
         /\ revenue_data.raw_text = Prefix(response.text, RawTextLimit)
    /\ rpc = "done" =>
         /\ confidence.returned = "INSUFFICIENT"
         /\ rexit = <<ExitSuccess>>

\* A run on a response that holds a brace but parses under no strategy
\* has ended.
C20_Witness ==
  /\ rpc = "done"
  /\ response.kind = "text"
  /\ response.text = <<"{", "1">>
  /\ "parse_error" \in DOMAIN revenue_data

---------------------------------------------------------------------------
(* deep_analysis.py: batches in which some calls go wrong and others do    *)
(* not.  main is a sequential program: it keeps taking its next step.      *)

BatchStatements ==
  { Statement(Relevant, "youtube"), Statement(Relevant, "news") }

BatchFiles ==
  { [company_name |-> "FileCo", domain |-> "file.example",
     strategic_statements |-> Numbered(q)] :
      q \in UNION { [1..n -> BatchStatements] : n \in 1..MaxStmts } }

BInit ==
  /\ XIdle
  /\ RIdle
  /\ DIdle
  /\ cli = [company_name |-> "", domain |-> "",
            threshold |-> MIN_RELEVANCE_THRESHOLD]
  /\ discovery_data \in BatchFiles
  /\ service \in MixedKinds \cup {"raises", "unparseable", "non_object"}
  /\ pc = "start"
  /\ company_name = ""
  /\ domain = ""
  /\ sources = <<>>
  /\ yt_sources = <<>>
  /\ art_sources = <<>>
  /\ youtube_results = <<>>
  /\ article_results = <<>>
  /\ calls = <<>>
  /\ deep_intel = NoRecord
  /\ exit_status = NotExited

SpecBatch == BInit /\ [][MNext]_vars /\ WF_vars(MNext)

\* The source_url of each result record, in order.
ResultUrls(rs) == [i \in 1..Len(rs) |-> rs[i].source_url]

IsPrefix(a, b) == Len(a) <= Len(b) /\ a = SubSeq(b, 1, Len(a))

\* The result records so far are one per source, in routing order; no
\* exception has ended the run; once merged, there is exactly one record
\* for every primary source and for each of the first five secondary ones.
BatchRecords ==
  /\ pc # "crashed"
  /\ exit_status # <<ExitFailure>>
  /\ IsPrefix(ResultUrls(youtube_results), SurvivorUrls(PrimaryKinds))
  /\ IsPrefix(ResultUrls(article_results), FirstFive(SurvivorUrls(SecondaryKinds)))
  /\ Len(calls) = Len(youtube_results) + Len(article_results)
  /\ Finished =>
       /\ ResultUrls(youtube_results) = SurvivorUrls(PrimaryKinds)
       /\ ResultUrls(article_results) = FirstFive(SurvivorUrls(SecondaryKinds))
       /\ deep_intel.youtube_intel = youtube_results
       /\ deep_intel.article_intel = article_results

\* C19: a failure on one source (an exception of the call or a response
\* that cannot be parsed) does not stop the batch: every primary source and
\* each of the first five secondary sources yields exactly one result
\* record, in routing order, and the merge step always runs afterwards.
C19_BatchCompletes ==
  /\ []BatchRecords
  /\ (pc = "youtube") ~> Finished

\* A batch whose odd-numbered calls raised has been merged: of two videos
\* and two articles the first of each failed and the second was parsed.
C19_Witness ==
  /\ Finished
  /\ service = "raises_odd"
  /\ Len(youtube_results) = 2
  /\ Len(article_results) = 2
  /\ "error" \in DOMAIN youtube_results[1]
  /\ "error" \notin DOMAIN youtube_results[2]
  /\ "error" \in DOMAIN article_results[1]
  /\ "error" \notin DOMAIN article_results[2]
  /\ deep_intel.executives_found # <<>>
  /\ deep_intel.key_quotes # <<>>

---------------------------------------------------------------------------
(* Comparisons between the scoring of the run's estimates and the scoring  *)
(* of a single estimate, checked under SpecRevenue.                        *)

\* The single estimates of credibility c among the inputs.
SingleEstimates(c) ==
  { e \in FirstEstimates : Get(e, "credibility_score", 0) = c }

\* The level calculate_confidence returns for the estimate e alone, with
\* no red flag.
SingleLevel(e) == calculate_confidence([revenue_estimates |-> <<e>>]).returned

\* Two or more estimates, no red flag, variance_pct at most 20.
Agreeing ==
  /\ Len(Estimates) >= 2
  /\ Flags = {}
  /\ ~VarianceExceeds(Amounts, 20)

CredibilityValues == { Get(e, "credibility_score", 0) : e \in FirstEstimates }

\* C21 as stated: agreeing estimates of best credibility b are never rated
\* above a single estimate of a credibility greater than b.
C21_AgreeingNeverOutrank ==
  (Scored /\ Agreeing) =>
    \A c \in CredibilityValues : \A e \in SingleEstimates(c) :
      c > BestCredibility(Estimates) =>
        LevelIndex(confidence.returned) <= LevelIndex(SingleLevel(e))

\* C21 amended: agreeing estimates whose best credibility is below 50 (the
\* low tier) are never rated above a single estimate of a greater
\* credibility.
C21_LowTierNeverOutranks ==
  (Scored /\ Agreeing /\ BestCredibility(Estimates) < 50) =>
    /\ confidence.returned = "LOW"
    /\ \A c \in CredibilityValues : \A e \in SingleEstimates(c) :
         c > BestCredibility(Estimates) =>
           LevelIndex(confidence.returned) <= LevelIndex(SingleLevel(e))

\* Two agreeing estimates of best credibility 49 were scored, and a single
\* estimate of credibility 50 exists to compare with.
C21_Witness ==
  /\ Scored
  /\ Agreeing
  /\ Len(Amounts) = 2
  /\ BestCredibility(Estimates) = 49
  /\ SingleEstimates(50) # {}

\* C22: with no red flag, a single estimate of credibility c is never
\* rated above two consistent estimates (variance_pct <= 20) whose best
\* credibility is c.
C22_SingleNeverOutranksPair ==
  (Scored /\ Agreeing /\ Len(Estimates) = 2) =>
    \A e \in SingleEstimates(BestCredibility(Estimates)) :
      LevelIndex(SingleLevel(e)) <= LevelIndex(confidence.returned)

\* Two consistent estimates of best credibility 80 were rated HIGH, above
\* the MODERATE-HIGH of a single estimate of credibility 80.
C22_Witness ==
  /\ Scored
  /\ Agreeing
  /\ Len(Estimates) = 2
  /\ BestCredibility(Estimates) = 80
  /\ confidence.returned = "HIGH"
  /\ \E e \in SingleEstimates(80) : SingleLevel(e) = "MODERATE-HIGH"

---------------------------------------------------------------------------
(* Properties of variance_pct and of the levels, checked under             *)
(* SpecRevenue.                                                            *)

\* The positions of the estimates with an amount above 0.
PositivePositions ==
  { i \in 1..Len(Estimates) :
      "amount_millions" \in DOMAIN Estimates[i]
        /\ Estimates[i].amount_millions > 0 }

PositiveValues == { Estimates[i].amount_millions : i \in PositivePositions }

RECURSIVE SumOver(_)
SumOver(P) ==
  IF P = {} THEN 0
  ELSE LET i == CHOOSE j \in P : TRUE
       IN Estimates[i].amount_millions + SumOver(P \ {i})

\* C23: variance_pct is (max - min) / mean * 100 over the amounts above 0
\* when there are at least two of them and 0 otherwise, and count is the
\* number of all estimates; so two estimates of which one has a positive
\* amount have variance_pct 0 and count 2.
C23_VarianceOverPositiveAmounts ==
  (Scored /\ Estimates # <<>>) =>
    LET n == Cardinality(PositivePositions)
        v == confidence.variance_pct
    IN /\ confidence.source_count = Len(Estimates)
       /\ v.den > 0
       /\ n >= 2 =>
            v.num * SumOver(PositivePositions)
              = (Max(PositiveValues) - Min(PositiveValues)) * 100 * n * v.den
       /\ n < 2 => v.num = 0
       /\ (Len(Estimates) = 2 /\ n = 1) =>
            /\ v.num = 0
            /\ confidence.source_count = 2
            /\ (Flags = {} /\ BestCredibility(Estimates) >= 80) =>
                 confidence.returned = "HIGH"

\* Two estimates, one of them with amount 0 and the other with a positive
\* amount, best credibility 80 or more, were rated HIGH.
C23_Witness ==
  /\ Scored
  /\ Len(Estimates) = 2
  /\ Cardinality(PositivePositions) = 1
  /\ "amount_millions" \in DOMAIN Estimates[1]
  /\ Estimates[1].amount_millions = 0
  /\ Flags = {}
  /\ confidence.returned = "HIGH"

\* C24: whenever the base level is HIGH or MODERATE-HIGH variance_pct is
\* at most 40, so variance_pct > 300 never causes a demotion by itself:
\* the level is demoted to MODERATE exactly when the high_variance flag
\* is present and the base level is HIGH or MODERATE-HIGH.
C24_OnlyTheFlagDemotes ==
  (Scored /\ Estimates # <<>>) =>
    /\ confidence.base \in {"HIGH", "MODERATE-HIGH"}
         => confidence.variance_pct.num <= 40 * confidence.variance_pct.den
    /\ confidence.demoted # confidence.base
         <=> ("high_variance" \in Flags
              /\ confidence.base \in {"HIGH", "MODERATE-HIGH"})
    /\ confidence.demoted # confidence.base => confidence.demoted = "MODERATE"

\* Estimates of best credibility 90 with variance_pct above 300 and no
\* flag were scored, and nothing was demoted.
C24_Witness ==
  /\ Scored
  /\ Estimates # <<>>
  /\ Flags = {}
  /\ BestCredibility(Estimates) = 90
  /\ confidence.variance_pct.num > 300 * confidence.variance_pct.den
  /\ confidence.returned = confidence.base

\* C25: the result of calculate_confidence is one of the five labels and
\* is never higher than the base level the rule table selected; without
\* the high_variance and stale_data flags it is the base level.
C25_FlagsOnlyLower ==
  Scored =>
    /\ confidence.returned \in Range(Levels)
    /\ Estimates # <<>> =>
         /\ confidence.base \in Range(Levels)
         /\ LevelIndex(confidence.returned) <= LevelIndex(confidence.base)
         /\ Flags \cap {"high_variance", "stale_data"} = {}
              => confidence.returned = confidence.base

\* Estimates with base level HIGH and both flags were scored and the
\* result is lower than HIGH.
C25_Witness ==
  /\ Scored
  /\ Estimates # <<>>
  /\ {"high_variance", "stale_data"} \subseteq Flags
  /\ confidence.base = "HIGH"
  /\ LevelIndex(confidence.returned) < LevelIndex(confidence.base)

---------------------------------------------------------------------------
(* The names in the merged record, checked under SpecDeep.                 *)

\* C26: in discovery-file mode the company_name and domain of the merged
\* record are the values used for the follow-up calls: the command-line
\* value when given, otherwise the value read from the discovery file.
C26_MergedNamesMatchCalls ==
  Finished =>
    /\ deep_intel.company_name
         = OrElse(cli.company_name,
                  Get(discovery_data, "company_name", "Unknown"))
    /\ deep_intel.domain
         = OrElse(cli.domain, Get(discovery_data, "domain", "unknown.com"))
    /\ \A i \in 1..Len(calls) :
         calls[i].company_name = deep_intel.company_name

---------------------------------------------------------------------------
(* discovery.py: the company collection, the acquisition check and the     *)
(* acquirer follow-up.  An answer of the external service is, as for       *)
(* revenue.py, a raised call, a text or the dict a JSON text decodes to.   *)

\* Ownership changes per intel document.
MaxChanges == 2

\* Python's None.
None == [t |-> "null"]

\* extract_json(response.text) of discovery.py; always a dict.
ExtractDiscovery(resp) ==
  IF resp.kind = "text"
    THEN DictOf(extract_json_discovery(resp.text))
    ELSE resp.body

\* collect_company_intel: the call and extract_json, or the empty intel
\* of the except branch.
collect_company_intel(resp) ==
  IF resp.kind = "raises"
    THEN [error |-> "service", strategic_statements |-> <<>>,
          company_priorities |-> <<>>, key_executives |-> <<>>,
          ownership_changes |-> <<>>, company_context |-> "",
          collection_notes |-> "API error: service"]
    ELSE ExtractDiscovery(resp)

\* collect_acquirer_intel: the call and extract_json, or {"error": str(e)}.
collect_acquirer_intel(resp) ==
  IF resp.kind = "raises"
    THEN [error |-> "service"]
    ELSE ExtractDiscovery(resp)

\* The type test accepting acquisitions only.
IsAcquisitionOnly(oc) ==
  "event_type" \in DOMAIN oc /\ oc.event_type \in {"acquisition"}

\* oc.get("event_type") in ["acquisition", "merger", "pe_investment"]
IsAcquisition(oc) ==
  "event_type" \in DOMAIN oc
    /\ oc.event_type \in {"acquisition", "merger", "pe_investment"}

\* process_acquisitions: ret is <<>> for None and <<info>> for a dict;
\* made holds the calls of collect_acquirer_intel, resp the service's
\* answer to such a call.
process_acquisitions(resp, company_intel, name) ==
  LET ownership_changes == Get(company_intel, "ownership_changes", <<>>)
      acquisitions == SelectSeq(ownership_changes, IsAcquisition)
  IN IF ownership_changes = <<>> THEN [ret |-> <<>>, made |-> <<>>]
     ELSE IF acquisitions = <<>> THEN [ret |-> <<>>, made |-> <<>>]
     ELSE
       LET primary == acquisitions[1]
           acquirer_name == Get(primary, "counterparty_name", "")
       IN IF acquirer_name = ""
            THEN [ret |-> <<[detected |-> TRUE, acquirer_intel |-> None,
                             note |-> "Acquirer name not found"]>>,
                  made |-> <<>>]
            ELSE [ret |-> <<[detected |-> TRUE,
                             acquirer_name |-> acquirer_name,
                             acquirer_domain |->
                               Get(primary, "counterparty_domain", None),
                             acquisition_date |-> Get(primary, "date", None),
                             details |-> Get(primary, "details", None),
                             acquirer_intel |-> collect_acquirer_intel(resp)]>>,
                  made |-> <<[acquirer_name |-> acquirer_name,
                              acquirer_domain |->
                                Get(primary, "counterparty_domain", ""),
                              acquired_company |-> name,
                              acquisition_date |-> Get(primary, "date", "")]>>]

\* intel = collect_company_intel(client, domain, company_name)
CollectCompanyIntel ==
  /\ dpc = "start"
  /\ intel' = collect_company_intel(answers.company)
  /\ dpc' = "acquisitions"
  /\ UNCHANGED <<args, answers, acquirer_calls>>
  /\ UNCHANGED <<xvars, mvars, rvars>>

\* The acquisition check, the metadata and the rest of main.
CheckAcquisitions ==
  /\ dpc = "acquisitions"
  /\ LET out == IF args.no_acquirer
                  THEN [ret |-> <<>>, made |-> <<>>]
                  ELSE process_acquisitions(answers.acquirer, intel,
                                            args.company_name)
         attached == IF out.ret # <<>> /\ out.ret[1].detected
                       THEN Put(intel, "acquisition_info", out.ret[1])
                       ELSE intel
     IN /\ acquirer_calls' = acquirer_calls \o out.made
        /\ intel' = Put(attached, "_metadata",
                        [collected_at |-> "now", domain |-> args.domain,
                         company_name |-> args.company_name])
  /\ dpc' = "done"
  /\ UNCHANGED <<args, answers>>
  /\ UNCHANGED <<xvars, mvars, rvars>>

DNext ==
  \/ CollectCompanyIntel
  \/ CheckAcquisitions

---------------------------------------------------------------------------
(* Inputs of discovery.py.                                                 *)

EventTypeOptions ==
  { NoRecord } \cup { [event_type |-> t] :
                        t \in {"acquisition", "merger", "pe_investment", "ipo"} }

CounterpartyOptions ==
  { NoRecord } \cup { [counterparty_name |-> n] : n \in {"", "Acme"} }

OwnershipChanges ==
  { Join(t, c) : t \in EventTypeOptions, c \in CounterpartyOptions }

ChangeLists ==
  UNION { [1..n -> OwnershipChanges] : n \in 0..MaxChanges }

IntelDocuments ==
  { [company_context |-> "ctx"] }
  \cup { [company_context |-> "ctx", ownership_changes |-> q] :
           q \in ChangeLists }

CompanyAnswers ==
  { [kind |-> "raises"], [kind |-> "text", text |-> <<"n", "o">>],
    [kind |-> "text", text |-> <<"{", "}">>] }
  \cup { [kind |-> "document", body |-> d] : d \in IntelDocuments }

AcquirerAnswers ==
  { [kind |-> "raises"], [kind |-> "text", text |-> <<"n", "o">>],
    [kind |-> "document",
     body |-> [key_executives |-> <<>>, other_acquisitions |-> <<>>]] }

DInit ==
  /\ XIdle
  /\ MainIdle
  /\ RIdle
  /\ args \in { [domain |-> "example.com", company_name |-> "Example",
                  no_acquirer |-> b] : b \in BOOLEAN }
  /\ answers \in { [company |-> c, acquirer |-> a] :
                     c \in CompanyAnswers, a \in AcquirerAnswers }
  /\ intel = NoRecord
  /\ acquirer_calls = <<>>
  /\ dpc = "start"

SpecDiscovery == DInit /\ [][DNext]_vars

---------------------------------------------------------------------------
(* Properties of the acquisition check, checked under SpecDiscovery.       *)

Collected == dpc = "done"

Changes == Get(intel, "ownership_changes", <<>>)

\* The positions of the changes of type acquisition, merger or
\* pe_investment.
TypedPositions ==
  { i \in 1..Len(Changes) :
      /\ "event_type" \in DOMAIN Changes[i]
      /\ \E t \in {"acquisition", "merger", "pe_investment"} :
           Changes[i].event_type = t }

\* The first of them has a non-empty counterparty name.
FirstTypedNamed ==
  /\ TypedPositions # {}
  /\ LET first == Changes[Min(TypedPositions)]
     IN "counterparty_name" \in DOMAIN first /\ first.counterparty_name # ""

\* C27: a discovery run makes at most one acquirer follow-up call, and
\* makes it exactly when acquirer collection is not disabled and the first
\* ownership change of type acquisition, merger or pe_investment has a
\* non-empty counterparty name; acquisition_info is attached to the result
\* exactly when acquirer collection is not disabled and there is an
\* ownership change of one of those types.
C27_AcquirerFollowUp ==
  /\ Len(acquirer_calls) <= 1
  /\ ~Collected => acquirer_calls = <<>>
  /\ Collected =>
       /\ Len(acquirer_calls) = 1
            <=> (~args.no_acquirer /\ FirstTypedNamed)
       /\ "acquisition_info" \in DOMAIN intel
            <=> (~args.no_acquirer /\ TypedPositions # {})
       /\ Len(acquirer_calls) = 1 =>
            acquirer_calls[1].acquirer_name
              = Changes[Min(TypedPositions)].counterparty_name

\* A run whose intel lists a change of another type and then a
\* pe_investment by Acme made the follow-up call and attached
\* acquisition_info.
C27_Witness ==
  /\ Collected
  /\ Len(Changes) = 2
  /\ TypedPositions = {2}
  /\ Changes[2].event_type = "pe_investment"
  /\ Len(acquirer_calls) = 1
  /\ acquirer_calls[1].acquirer_name = "Acme"
  /\ "acquisition_info" \in DOMAIN intel

====
